---------------------------- MODULE Spec2Model ----------------------------
(***************************************************************************)
(* Model of Orion's daemon-supervision glue.                               *)
(*                                                                         *)
(*   src/app/daemon.js      the module as shipped (bundled binary)         *)
(*   src/unnamed/part_000   the settings-driven variant of the same module *)
(*   src/unnamed/part_001   the welcome window (React component)           *)
(*                                                                         *)
(* JavaScript runs every callback to completion, so each handler is one    *)
(* action.  The calls a handler makes on the outside world (the error      *)
(* dialog, app.quit, resolve, reject, console.log) are appended, in the    *)
(* order the code makes them, to the trace `events`.                       *)
(***************************************************************************)
EXTENDS Integers, Sequences, FiniteSets, TLC

\* ------------------------------------------------------------------ bounds
MaxExitCode == 1      \* exit codes 0 .. MaxExitCode, plus the null code
MaxCmds     == 2      \* external commands issued through promised-exec
MaxBodyLen  == 4      \* characters of an HTTP response body

\* ------------------------------------------------------------- vocabulary
Undefined  == "undefined"          \* a setting that was never stored
NullExit   == 0 - 1                \* close(null): the child was killed by a signal
ExitCodes  == (0 .. MaxExitCode) \cup {NullExit}
Multiaddrs == {"/ip4/10.0.0.1/tcp/4001/ipfs/QmA", "/ip4/10.0.0.2/tcp/4001/ipfs/QmB"}

VARIABLES
    variant,        \* which build of the daemon module is loaded
    settings,       \* electron-settings: key -> value
    files,          \* the paths that exist on disk
    pc,             \* position of the start-up chain
    initProc,       \* the `init` child process: [state, exit]
    initPromise,    \* promise returned by ensuresIPFSInitialised
    daemonProc,     \* the `daemon` child process: [state, exit]
    daemonPromise,  \* promise returned by startIPFSDaemon: [state, value]
    timer,          \* the setTimeout of startIPFSDaemon
    spawned,        \* argv of every spawn(), in order
    logFiles,       \* temporary log files created
    events,         \* trace of the calls made by the daemon module
    cmds,           \* commands handed to promised-exec, with their promises
    page,           \* WelcomeWindow.state.page
    windowOpen,     \* the welcome window has not been closed
    wEvents,        \* trace of the calls made by the welcome window
    request,        \* the HTTP request of getSiderusPeers
    body,           \* the response body
    peers           \* the value the promise of getSiderusPeers resolved with

daemonVars  == <<variant, files, pc, initProc, initPromise, daemonProc,
                 daemonPromise, timer, spawned, logFiles, events>>
cmdVars     == <<cmds>>
welcomeVars == <<page, windowOpen, wEvents>>
peerVars    == <<request, body, peers>>
vars == <<variant, settings, files, pc, initProc, initPromise, daemonProc,
          daemonPromise, timer, spawned, logFiles, events, cmds, page,
          windowOpen, wEvents, request, body, peers>>

\* -------------------------------------------------------------- promises
\* A promise is settled by the first resolve()/reject(); later calls are ignored.
Pending == [state |-> "pending", value |-> Undefined]
settle(p, how, v) ==
    IF p.state = "pending" THEN [state |-> how, value |-> v] ELSE p

\* JavaScript truthiness of a stored setting (strings only in this model).
Truthy(v) == v \notin {Undefined, "", "false"}

\* ----------------------------------------------------------- file system
Home     == <<"home">>
RepoDir  == Home \o <<".ipfs">>
ConfFile == Home \o <<".ipfs", "config">>
pathJoin(a, b, c) == a \o <<b, c>>
existsSync(p) == p \in files

\* ------------------------------------------------------- binary locator
DefaultAPI == "/ip4/127.0.0.1/tcp/5001"

getPathIPFSBinaryBundled == "<appRoot>/go-ipfs/ipfs"

getPathIPFSBinarySettings ==
    IF Truthy(settings.pathIPFSBinary) THEN settings.pathIPFSBinary
    ELSE "/usr/local/bin/ipfs"

getPathIPFSBinary ==
    IF variant = "daemon.js" THEN getPathIPFSBinaryBundled
    ELSE getPathIPFSBinarySettings

\* ------------------------------------------------------- child processes
NoProc == [state |-> "none", exit |-> 0]
Running == [state |-> "running", exit |-> 0]

NoPromise == [state |-> "none", value |-> Undefined]

\* The calls a handler makes, as entries of the trace.
Ev(who, what) == <<who, what>>

\* `ipfs init` leaves a repository behind when it succeeds (exit code 0).
InitExit(code) ==
    /\ initProc.state = "running"
    /\ initProc' = [state |-> "exited", exit |-> code]
    /\ files' = IF code = 0 THEN files \cup {RepoDir, ConfFile} ELSE files
    /\ UNCHANGED <<variant, settings, pc, initPromise, daemonProc, daemonPromise,
                   timer, spawned, logFiles, events>>
    /\ UNCHANGED <<cmdVars, welcomeVars, peerVars>>

\* The daemon ends: on its own, by a failure, or killed by a signal.
DaemonExit(code) ==
    /\ daemonProc.state = "running"
    /\ daemonProc' = [state |-> "exited", exit |-> code]
    /\ UNCHANGED <<variant, settings, files, pc, initProc, initPromise,
                   daemonPromise, timer, spawned, logFiles, events>>
    /\ UNCHANGED <<cmdVars, welcomeVars, peerVars>>

\* ---------------------------------------------- src/app/daemon.js: daemon
\* Variant: the promise is resolved inside the executor, without the timer.
startIPFSDaemonNoDelay ==
    /\ daemonProc' = Running
    /\ spawned' = Append(spawned, <<getPathIPFSBinary, "daemon">>)
    /\ logFiles' = logFiles + 1
    /\ daemonPromise' = settle(Pending, "resolved", "ipfsProcess")
    /\ events' = Append(events, Ev("daemon", "resolve"))
    /\ UNCHANGED timer

\* startIPFSDaemon, the executor of the returned promise (lines 23-53).
startIPFSDaemon ==
    /\ daemonProc' = Running
    /\ spawned' = Append(spawned, <<getPathIPFSBinary, "daemon">>)
    /\ logFiles' = logFiles + 1
    /\ daemonPromise' = Pending
    /\ timer' = "armed"
    /\ UNCHANGED events

\* Variant: `if (exit)` in place of `if (exit !== 0)`; a null code is falsy.
daemonOnCloseTruthy(exit) ==
    IF exit > 0
    THEN <<Ev("daemon", "showErrorBox"), Ev("daemon", "app.quit"),
           Ev("daemon", "console.log")>>
    ELSE <<Ev("daemon", "console.log")>>

\* ipfsProcess.on('close', (exit) => ...) of startIPFSDaemon.
daemonOnClose(exit) ==
    IF exit # 0
    THEN <<Ev("daemon", "showErrorBox"), Ev("daemon", "app.quit"),
           Ev("daemon", "console.log")>>
    ELSE <<Ev("daemon", "console.log")>>

\* setTimeout(() => { resolve(ipfsProcess) }, 1 * 1000)
TimerFire ==
    /\ timer = "armed"
    /\ timer' = "fired"
    /\ daemonPromise' = settle(daemonPromise, "resolved", "ipfsProcess")
    /\ events' = Append(events, Ev("daemon", "resolve"))
    /\ UNCHANGED <<variant, settings, files, pc, initProc, initPromise,
                   daemonProc, spawned, logFiles>>
    /\ UNCHANGED <<cmdVars, welcomeVars, peerVars>>

\* ------------------------------------------ src/unnamed/part_000: daemon
\* startIPFSDaemon of the settings-driven variant.
startIPFSDaemonSettings ==
    IF settings.startIPFSAtStartup = "false"
    THEN /\ daemonPromise' = settle(Pending, "resolved", Undefined)
         /\ UNCHANGED <<daemonProc, spawned, logFiles, timer, events>>
    ELSE /\ daemonProc' = Running
         /\ spawned' = Append(spawned, <<getPathIPFSBinary, "daemon">>)
         /\ daemonPromise' = settle(Pending, "resolved", "ipfsProcess")
         /\ events' = Append(events, Ev("daemon", "resolve"))
         /\ UNCHANGED <<logFiles, timer>>

\* ipfsProcess.on('close', (exit) => console.log(...)) of that variant.
daemonOnCloseSettings(exit) == <<Ev("daemon", "console.log")>>

\* The 'close' event of the daemon process is delivered to the handler.
DaemonClose ==
    /\ daemonProc.state = "exited"
    /\ daemonProc' = [daemonProc EXCEPT !.state = "closed"]
    /\ events' = events \o (IF variant = "daemon.js"
                            THEN daemonOnClose(daemonProc.exit)
                            ELSE daemonOnCloseSettings(daemonProc.exit))
    /\ UNCHANGED <<variant, settings, files, pc, initProc, initPromise,
                   daemonPromise, timer, spawned, logFiles>>
    /\ UNCHANGED <<cmdVars, welcomeVars, peerVars>>

\* ------------------------------------- src/app/daemon.js: initialisation
\* Variant: the repository directory is looked up instead of its config file.
isIPFSInitialisedRepoDir == existsSync(Home \o <<".ipfs">>)

isIPFSInitialised == existsSync(pathJoin(Home, ".ipfs", "config"))

\* Variant: `init` is spawned but the caller is not made to wait for it.
ensuresIPFSInitialisedNoWait ==
    IF isIPFSInitialised
    THEN /\ initPromise' = settle(Pending, "resolved", Undefined)
         /\ UNCHANGED <<initProc, spawned, logFiles, events>>
    ELSE /\ initPromise' = settle(Pending, "resolved", Undefined)
         /\ initProc' = Running
         /\ spawned' = Append(spawned, <<getPathIPFSBinary, "init">>)
         /\ logFiles' = logFiles + 1
         /\ UNCHANGED events

ensuresIPFSInitialised ==
    IF isIPFSInitialised
    THEN /\ initPromise' = settle(Pending, "resolved", Undefined)
         /\ UNCHANGED <<initProc, spawned, logFiles, events>>
    ELSE /\ initPromise' = Pending
         /\ initProc' = Running
         /\ spawned' = Append(spawned, <<getPathIPFSBinary, "init">>)
         /\ logFiles' = logFiles + 1
         /\ UNCHANGED events

\* Variant: resolve() is called ahead of the failure branch.
initOnCloseResolveFirst(exit) ==
    IF exit # 0
    THEN <<Ev("init", "resolve"), Ev("init", "showErrorBox"),
           Ev("init", "app.quit"), Ev("init", "reject")>>
    ELSE <<Ev("init", "resolve")>>

\* ipfsProcess.on('close', (exit) => ...) of ensuresIPFSInitialised:
\* the calls it makes, and what they leave of the promise.
initOnClose(exit) ==
    IF exit # 0
    THEN <<Ev("init", "showErrorBox"), Ev("init", "app.quit"),
           Ev("init", "reject"), Ev("init", "resolve")>>
    ELSE <<Ev("init", "resolve")>>

RECURSIVE applySettles(_, _)
applySettles(p, calls) ==
    IF calls = <<>> THEN p
    ELSE LET c == Head(calls)
             q == IF c[2] = "resolve" THEN settle(p, "resolved", Undefined)
                  ELSE IF c[2] = "reject" THEN settle(p, "rejected", Undefined)
                  ELSE p
         IN applySettles(q, Tail(calls))

InitClose ==
    /\ initProc.state = "exited"
    /\ initProc' = [initProc EXCEPT !.state = "closed"]
    /\ events' = events \o initOnClose(initProc.exit)
    /\ initPromise' = applySettles(initPromise, initOnClose(initProc.exit))
    /\ UNCHANGED <<variant, settings, files, pc, daemonProc, daemonPromise,
                   timer, spawned, logFiles>>
    /\ UNCHANGED <<cmdVars, welcomeVars, peerVars>>

\* ------------------------------------------------------ the start-up chain
\* ensuresIPFSInitialised().then(startIPFSDaemon): initialise, then start.
Boot ==
    /\ pc = "boot"
    /\ variant = "daemon.js"
    /\ ensuresIPFSInitialised
    /\ pc' = "init"
    /\ UNCHANGED <<variant, settings, files, daemonProc, daemonPromise, timer>>
    /\ UNCHANGED <<cmdVars, welcomeVars, peerVars>>

ThenStartDaemon ==
    /\ pc = "init"
    /\ initPromise.state = "resolved"
    /\ startIPFSDaemon
    /\ pc' = "daemon"
    /\ UNCHANGED <<variant, settings, files, initProc, initPromise>>
    /\ UNCHANGED <<cmdVars, welcomeVars, peerVars>>

\* The settings-driven variant has no initialiser: it starts the daemon.
BootSettings ==
    /\ pc = "boot"
    /\ variant = "part_000"
    /\ startIPFSDaemonSettings
    /\ pc' = "daemon"
    /\ UNCHANGED <<variant, settings, files, initProc, initPromise>>
    /\ UNCHANGED <<cmdVars, welcomeVars, peerVars>>

\* ------------------------------------------------- config/connect commands
\* Returns the multiAddr usable to connect to the local daemon via API.
getMultiAddrIPFSDaemonBundled == DefaultAPI

getMultiAddrIPFSDaemonSettings ==
    IF Truthy(settings.multiAddrAPI) THEN settings.multiAddrAPI ELSE DefaultAPI

getMultiAddrIPFSDaemon ==
    IF variant = "daemon.js" THEN getMultiAddrIPFSDaemonBundled
    ELSE getMultiAddrIPFSDaemonSettings

\* exec(`...`) of promised-exec: one child command, one promise bound to it.
exec(argv) == [argv |-> argv, result |-> "running", promise |-> Pending]

\* The command line each function builds (the same text in both variants).
setMultiAddrIPFSDaemon ==
    <<exec(<<getPathIPFSBinary, "config", "Addresses.API", DefaultAPI>>)>>

connectToCMD(strMultiddr) ==
    <<exec(<<getPathIPFSBinary, "swarm", "connect", strMultiddr>>)>>

\* Variant: the command line of connectToCMD pasted into addBootstrapAddr.
addBootstrapAddrSwarm(strMultiddr) ==
    <<exec(<<getPathIPFSBinary, "swarm", "connect", strMultiddr>>)>>

addBootstrapAddr(strMultiddr) ==
    <<exec(<<getPathIPFSBinary, "bootstrap", "add", strMultiddr>>)>>

\* A caller invokes one of the exported functions; `calls` on the command
\* records which one, with which argument.
Issue(fn, arg, started) ==
    /\ Len(cmds) < MaxCmds
    /\ cmds' = cmds \o [i \in 1 .. Len(started) |->
                          [call |-> <<fn, arg>>] @@ started[i]]
    /\ UNCHANGED <<daemonVars, settings, welcomeVars, peerVars>>

CallSetMultiAddr ==
    Issue("setMultiAddrIPFSDaemon", Undefined, setMultiAddrIPFSDaemon)

CallConnectTo(m) == Issue("connectToCMD", m, connectToCMD(m))

CallAddBootstrap(m) ==
    /\ variant = "daemon.js"
    /\ Issue("addBootstrapAddr", m, addBootstrapAddr(m))

\* The command ends; promised-exec settles its promise with the outcome.
ExecDone(i, ok) ==
    /\ i \in 1 .. Len(cmds)
    /\ cmds[i].result = "running"
    /\ cmds' = [cmds EXCEPT
                  ![i].result = IF ok THEN "ok" ELSE "failed",
                  ![i].promise = settle(@, IF ok THEN "resolved" ELSE "rejected",
                                        IF ok THEN "stdout" ELSE "stderr")]
    /\ UNCHANGED <<daemonVars, settings, welcomeVars, peerVars>>

\* --------------------------------------------- src/unnamed/part_001: welcome
\* render(): which handlers the current page offers.
render ==
    IF page = 0 THEN {"onNext"} ELSE {"onQuit", "onAccept"}

handleNext ==
    /\ windowOpen /\ "onNext" \in render
    /\ page' = 1
    /\ UNCHANGED <<windowOpen, wEvents, settings>>
    /\ UNCHANGED <<daemonVars, cmdVars, peerVars>>

\* The calls each handler makes, in the order it makes them.
handleQuitCalls == <<"window.close">>

\* Variant: the event is emitted before the agreement is stored.
handleAcceptCallsEmitFirst ==
    <<"emit start-orion", "Settings.setSync", "trackEvent", "window.close">>

handleAcceptCalls ==
    <<"Settings.setSync", "trackEvent", "emit start-orion", "window.close">>

\* The persisted settings after a run of calls.
RECURSIVE settingsAfter(_, _)
settingsAfter(st, calls) ==
    IF calls = <<>> THEN st
    ELSE settingsAfter(IF Head(calls) = "Settings.setSync"
                       THEN [st EXCEPT !.userAgreement = "true"] ELSE st,
                       Tail(calls))

\* A handler runs to completion: each call enters the trace together with the
\* value of the setting userAgreement it finds persisted.
RunHandler(calls) ==
    /\ settings' = settingsAfter(settings, calls)
    /\ wEvents' = wEvents \o
         [i \in 1 .. Len(calls) |->
            [call |-> calls[i],
             agreed |-> settingsAfter(settings, SubSeq(calls, 1, i - 1)).userAgreement]]
    /\ windowOpen' = (\A i \in 1 .. Len(calls) : calls[i] # "window.close")

handleQuit ==
    /\ windowOpen /\ "onQuit" \in render
    /\ RunHandler(handleQuitCalls)
    /\ UNCHANGED page
    /\ UNCHANGED <<daemonVars, cmdVars, peerVars>>

handleAccept ==
    /\ windowOpen /\ "onAccept" \in render
    /\ RunHandler(handleAcceptCalls)
    /\ UNCHANGED page
    /\ UNCHANGED <<daemonVars, cmdVars, peerVars>>

\* ------------------------------------------------------- peer list fetcher
CR == "CR"
LF == "LF"
Chars == {"a", CR, LF}
Bodies == UNION {[1 .. n -> Chars] : n \in 0 .. MaxBodyLen}

\* res.split(/\r?\n/): scan from q for the next match; p is where the
\* current piece starts.  A match at q is CR LF, or a LF alone.
RECURSIVE splitFrom(_, _, _)
splitFrom(res, p, q) ==
    IF q > Len(res) THEN <<SubSeq(res, p, Len(res))>>
    ELSE IF res[q] = CR /\ q + 1 <= Len(res) /\ res[q + 1] = LF
         THEN <<SubSeq(res, p, q - 1)>> \o splitFrom(res, q + 2, q + 2)
    ELSE IF res[q] = LF
         THEN <<SubSeq(res, p, q - 1)>> \o splitFrom(res, q + 1, q + 1)
    ELSE splitFrom(res, p, q + 1)

\* Variant: res.split('\n'), which leaves the CR of a CR LF break in the line.
RECURSIVE splitLFFrom(_, _, _)
splitLFFrom(res, p, q) ==
    IF q > Len(res) THEN <<SubSeq(res, p, Len(res))>>
    ELSE IF res[q] = LF
         THEN <<SubSeq(res, p, q - 1)>> \o splitLFFrom(res, q + 1, q + 1)
    ELSE splitLFFrom(res, p, q + 1)

splitLF(res) == splitLFFrom(res, 1, 1)

split(res) == splitFrom(res, 1, 1)

\* peers.filter(el => el.length > 0)
nonEmpty(el) == Len(el) > 0
filter(list) == SelectSeq(list, nonEmpty)

\* The .then() handler of getSiderusPeers.
thenPeers(res) == filter(split(res))

getSiderusPeers ==
    /\ request = "idle"
    /\ request' = "pending"
    /\ UNCHANGED <<body, peers>>
    /\ UNCHANGED <<daemonVars, settings, cmdVars, welcomeVars>>

\* The request succeeds with some body: the handler runs and the promise
\* resolves with its result.
Response(res) ==
    /\ request = "pending"
    /\ request' = "resolved"
    /\ body' = res
    /\ peers' = <<thenPeers(res)>>
    /\ UNCHANGED <<daemonVars, settings, cmdVars, welcomeVars>>

\* The request fails: request-promise rejects and the handler never runs.
RequestFails ==
    /\ request = "pending"
    /\ request' = "rejected"
    /\ UNCHANGED <<body, peers>>
    /\ UNCHANGED <<daemonVars, settings, cmdVars, welcomeVars>>

\* ------------------------------------------------------------ specification
NoSettings ==
    [startIPFSAtStartup |-> Undefined, pathIPFSBinary |-> Undefined,
     multiAddrAPI |-> Undefined, userAgreement |-> Undefined]

\* The persisted settings the settings-driven variant may start with.
StoredSettings ==
    [startIPFSAtStartup : {Undefined, "true", "false"},
     pathIPFSBinary : {Undefined, "/opt/go-ipfs/ipfs"},
     multiAddrAPI : {Undefined, "/ip4/127.0.0.1/tcp/5002"},
     userAgreement : {Undefined}]

\* What may exist below the home directory when the application starts.
Disks == {{}, {RepoDir}, {RepoDir, ConfFile}}

Init ==
    /\ variant \in {"daemon.js", "part_000"}
    /\ settings \in (IF variant = "daemon.js" THEN {NoSettings} ELSE StoredSettings)
    /\ files \in (IF variant = "daemon.js" THEN Disks ELSE {{RepoDir, ConfFile}})
    /\ pc = "boot"
    /\ initProc = NoProc
    /\ initPromise = NoPromise
    /\ daemonProc = NoProc
    /\ daemonPromise = NoPromise
    /\ timer = "none"
    /\ spawned = <<>>
    /\ logFiles = 0
    /\ events = <<>>
    /\ cmds = <<>>
    /\ page = 0
    /\ windowOpen = TRUE
    /\ wEvents = <<>>
    /\ request = "idle"
    /\ body = <<>>
    /\ peers = <<>>

Next ==
    \/ Boot
    \/ \E code \in ExitCodes : InitExit(code)
    \/ InitClose
    \/ ThenStartDaemon
    \/ BootSettings
    \/ \E code \in ExitCodes : DaemonExit(code)
    \/ DaemonClose
    \/ TimerFire
    \/ CallSetMultiAddr
    \/ \E m \in Multiaddrs : CallConnectTo(m)
    \/ \E m \in Multiaddrs : CallAddBootstrap(m)
    \/ \E i \in 1 .. MaxCmds, ok \in BOOLEAN : ExecDone(i, ok)
    \/ handleNext
    \/ handleQuit
    \/ handleAccept

Spec == Init /\ [][Next]_vars

\* The timer of startIPFSDaemon fires as long as the event loop runs.
FairSpec == Spec /\ WF_vars(TimerFire)

\* The peer list fetcher on its own: every body up to MaxBodyLen characters.
NextPeers ==
    \/ getSiderusPeers
    \/ \E res \in Bodies : Response(res)
    \/ RequestFails

SpecPeers == Init /\ [][NextPeers]_vars

\* ------------------------------------------------------------------ claims
\* Where an entry occurs in the trace of the daemon module.
At(e) == {i \in DOMAIN events : events[i] = e}

\* C1: in startIPFSDaemon of src/app/daemon.js, once the daemon has closed
\* with an exit code other than 0 (the null code of a signal included), before
\* or after the promise resolved, the error dialog has been shown and app.quit()
\* requested right after it; while it has not closed, or when it closed with
\* exit code 0, neither has happened.
C1_DaemonCloseNonZeroQuits ==
    variant = "daemon.js" =>
        IF daemonProc.state = "closed" /\ daemonProc.exit # 0
        THEN \E i \in DOMAIN events :
                /\ At(Ev("daemon", "showErrorBox")) = {i}
                /\ At(Ev("daemon", "app.quit")) = {i + 1}
        ELSE /\ At(Ev("daemon", "showErrorBox")) = {}
             /\ At(Ev("daemon", "app.quit")) = {}

\* The daemon was killed by a signal after the promise had resolved.
C1_Witness ==
    /\ variant = "daemon.js"
    /\ daemonProc = [state |-> "closed", exit |-> NullExit]
    /\ daemonPromise.state = "resolved"
    /\ At(Ev("daemon", "resolve")) # {}
    /\ \A i \in At(Ev("daemon", "resolve")), j \in At(Ev("daemon", "app.quit")) : i < j

C3_InitPromiseSettledByClose ==
    /\ [](variant = "daemon.js" =>
            /\ initProc.state \in {"running", "exited"} => initPromise = Pending
            /\ (initProc.state = "closed" /\ initProc.exit = 0) =>
                 /\ initPromise.state = "resolved"
                 /\ At(Ev("init", "showErrorBox")) = {}
                 /\ At(Ev("init", "app.quit")) = {}
            /\ (initProc.state = "closed" /\ initProc.exit # 0) =>
                 /\ initPromise.state = "rejected"
                 /\ \E i \in DOMAIN events :
                       /\ At(Ev("init", "showErrorBox")) = {i}
                       /\ At(Ev("init", "app.quit")) = {i + 1})
    /\ [][initPromise.state \in {"resolved", "rejected"} =>
            initPromise' = initPromise]_vars

\* init failed: the promise is rejected although resolve() was called after reject().
C3_Witness ==
    /\ variant = "daemon.js"
    /\ initProc.state = "closed" /\ initProc.exit # 0
    /\ initPromise.state = "rejected"
    /\ \E i \in At(Ev("init", "reject")), j \in At(Ev("init", "resolve")) : i < j

InitSpawns == {i \in DOMAIN spawned : spawned[i][2] = "init"}
DaemonSpawns == {i \in DOMAIN spawned : spawned[i][2] = "daemon"}

\* C4: the call of ensuresIPFSInitialised spawns `init` if and only if
\* <home>/.ipfs/config does not exist at that moment: with the file it returns a
\* resolved promise and spawns nothing, creates no log file, shows no dialog and
\* (no init process ever existing) never quits; without it, it spawns `init`
\* exactly once and returns a pending promise.
C4_InitSpawnedIffNoConfig ==
    /\ [][(variant = "daemon.js" /\ pc = "boot" /\ pc' # "boot") =>
            IF ConfFile \in files
            THEN /\ initPromise'.state = "resolved"
                 /\ spawned' = spawned /\ initProc' = NoProc
                 /\ logFiles' = logFiles /\ events' = events
            ELSE /\ initPromise' = Pending
                 /\ spawned' = Append(spawned, <<getPathIPFSBinary, "init">>)
                 /\ initProc'.state = "running"
                 /\ logFiles' = logFiles + 1]_vars
    /\ [](variant = "daemon.js" /\ initProc.state = "none" =>
            /\ InitSpawns = {}
            /\ \A i \in DOMAIN events : events[i][1] # "init")
    /\ [](Cardinality(InitSpawns) <= 1)

\* The file was there: resolved at once, nothing spawned, and the daemon
\* started later without any init.
C4_Witness ==
    /\ variant = "daemon.js"
    /\ pc = "daemon"
    /\ initProc = NoProc
    /\ initPromise.state = "resolved"
    /\ InitSpawns = {}

\* C5: in the start-up chain of src/app/daemon.js the `daemon` process is
\* spawned only when the configuration file exists and no init process is
\* running or waiting for its close event; `init` is spawned at most once, and
\* before the daemon.
C5_InitOnceBeforeDaemon ==
    /\ [][(variant = "daemon.js" /\ Len(spawned') > Len(spawned)
             /\ spawned'[Len(spawned')][2] = "daemon") =>
            /\ ConfFile \in files
            /\ initProc.state \in {"none", "closed"}
            /\ initProc.state = "closed" => initProc.exit = 0]_vars
    /\ [](variant = "daemon.js" =>
            /\ Cardinality(InitSpawns) <= 1
            /\ \A i \in InitSpawns, j \in DaemonSpawns : i < j
            /\ DaemonSpawns # {} => ConfFile \in files)

\* init had to run, succeeded, and only then was the daemon spawned.
C5_Witness ==
    /\ variant = "daemon.js"
    /\ Len(spawned) = 2
    /\ spawned[1][2] = "init" /\ spawned[2][2] = "daemon"
    /\ initProc = [state |-> "closed", exit |-> 0]

\* The sub-command each exported function is documented to run.
SubCommand(fn) ==
    CASE fn = "setMultiAddrIPFSDaemon" -> <<"config", "Addresses.API">>
      [] fn = "connectToCMD" -> <<"swarm", "connect">>
      [] fn = "addBootstrapAddr" -> <<"bootstrap", "add">>

\* C6: every command issued by setMultiAddrIPFSDaemon, connectToCMD or
\* addBootstrapAddr runs the binary of getPathIPFSBinary with that function's
\* sub-command (and, for the last two, the caller's multiaddr); a call issues
\* exactly one command; the returned promise is pending while the command runs,
\* resolved when it succeeded and rejected when it failed; and no step that
\* issues or ends a command shows a dialog or requests a quit.
C6_CommandsReturnOutcome ==
    /\ [](\A i \in DOMAIN cmds :
            LET c == cmds[i] IN
            /\ Len(c.argv) = 4
            /\ c.argv[1] = getPathIPFSBinary
            /\ SubSeq(c.argv, 2, 3) = SubCommand(c.call[1])
            /\ c.call[1] # "setMultiAddrIPFSDaemon" => c.argv[4] = c.call[2]
            /\ (c.result = "running") <=> (c.promise.state = "pending")
            /\ (c.result = "ok") <=> (c.promise.state = "resolved")
            /\ (c.result = "failed") <=> (c.promise.state = "rejected"))
    /\ [][cmds' # cmds =>
            /\ Len(cmds') \in {Len(cmds), Len(cmds) + 1}
            /\ events' = events]_vars

\* A failed `bootstrap add`: its promise is rejected and nothing was shown.
C6_Witness ==
    /\ \E i \in DOMAIN cmds :
          /\ cmds[i].call[1] = "addBootstrapAddr"
          /\ cmds[i].result = "failed"
          /\ cmds[i].promise.state = "rejected"
    /\ \E i \in DOMAIN cmds :
          /\ cmds[i].call[1] = "connectToCMD"
          /\ cmds[i].promise.state = "resolved"
    /\ events = <<>>

\* The line breaks of a body: every LF, together with the CR right before it.
Breaks(s) == {q \in DOMAIN s : s[q] = LF}
BreakStart(s, q) == IF q > 1 /\ s[q - 1] = CR THEN q - 1 ELSE q

\* The lines of a body, as <<first, last>> positions: a line starts at 1 or
\* right after a break and ends right before the next break or at the end.
LineSpans(s) ==
    {<<from, IF \E q \in Breaks(s) : q >= from
             THEN BreakStart(s, CHOOSE q \in Breaks(s) :
                                 q >= from /\ \A r \in Breaks(s) : r >= from => q <= r) - 1
             ELSE Len(s)>> :
       from \in {1} \cup {q + 1 : q \in Breaks(s)}}

NonEmptySpans(s) == {sp \in LineSpans(s) : sp[2] >= sp[1]}

\* C7: getSiderusPeers resolves with the non-empty lines of the body, each
\* exactly as it appears between two line breaks (LF or CR LF), in their
\* original order, and with no empty string; an empty body gives the empty
\* list; when the request fails the promise is rejected and no list exists.
C7_PeersAreNonEmptyLines ==
    /\ request = "resolved" =>
         /\ Len(peers) = 1
         /\ LET list == peers[1]
                spans == NonEmptySpans(body)
            IN /\ Len(list) = Cardinality(spans)
               /\ \A k \in DOMAIN list : list[k] # <<>>
               /\ \A sp \in spans :
                     list[1 + Cardinality({o \in spans : o[1] < sp[1]})]
                       = SubSeq(body, sp[1], sp[2])
               /\ body = <<>> => list = <<>>
    /\ request # "resolved" => peers = <<>>

\* A body with a CR LF break and an empty line that was dropped.
C7_Witness ==
    /\ request = "resolved"
    /\ \E q \in DOMAIN body : body[q] = CR /\ q < Len(body) /\ body[q + 1] = LF
    /\ Len(split(body)) > Len(peers[1])
    /\ Len(peers[1]) >= 1

\* C8: in the settings-driven variant, a spawned daemon that closed with a
\* non-zero exit code has made the module show an error and quit the
\* application.
C8_SettingsDaemonFailureQuits ==
    (variant = "part_000" /\ daemonProc.state = "closed" /\ daemonProc.exit # 0) =>
        /\ At(Ev("daemon", "showErrorBox")) # {}
        /\ At(Ev("daemon", "app.quit")) # {}

Emitted == {i \in DOMAIN wEvents : wEvents[i].call = "emit start-orion"}

\* C10: the welcome window starts on page 0 and its page only ever moves from
\* 0 to 1; 'start-orion' enters the trace only in a step taken on page 1 that
\* also persists userAgreement and closes the window, and every emission found
\* userAgreement already persisted as true; a window closed without emission
\* (handleQuit) left userAgreement unset, and nothing happens after the close.
C10_WelcomeFlow ==
    /\ page = 0
    /\ [](page \in {0, 1})
    /\ [][page' # page => (page = 0 /\ page' = 1)]_vars
    /\ [][wEvents' # wEvents =>
            /\ windowOpen /\ ~windowOpen' /\ page = 1
            /\ \/ /\ wEvents' = wEvents \o <<[call |-> "window.close",
                                               agreed |-> settings.userAgreement]>>
                  /\ settings' = settings
               \/ /\ Len(wEvents') = Len(wEvents) + 4
                  /\ Cardinality({i \in DOMAIN wEvents' :
                                    wEvents'[i].call = "emit start-orion"}) = 1
                  /\ settings'.userAgreement = "true"]_vars
    /\ [](\A i \in Emitted : wEvents[i].agreed = "true")
    /\ [](Emitted = {} => settings.userAgreement = Undefined)
    /\ [](Emitted # {} => settings.userAgreement = "true" /\ ~windowOpen)

\* The terms were accepted on page 1: agreement stored, event emitted, closed.
C10_Witness ==
    /\ page = 1
    /\ ~windowOpen
    /\ Emitted # {}
    /\ settings.userAgreement = "true"

=============================================================================
